---------------------------- MODULE Spec2Model ----------------------------
(***************************************************************************)
(* A model of the type checker of new_foxglove (src/typecheck.rs) and of   *)
(* its diagnostics (src/error.rs).                                         *)
(*                                                                         *)
(* The checker is a recursive walk over a span-annotated syntax tree.  It  *)
(* is modelled as a small-step machine: `stack` is the call stack of the   *)
(* recursion, `ctl` is what the walk does next, `vars`/`id_counter` are    *)
(* the fields of Engine and `bindings` is the Scopes value.                *)
(*                                                                         *)
(* A Spanned<T> = (T, Span) is the pair <<t, span>>: x[1] is x.0 and x[2]  *)
(* is x.1.  A Span is an opaque location; the syntax trees drawn in Init   *)
(* give every node a span of its own, so that a span copied from the wrong *)
(* node is visible.                                                        *)
(***************************************************************************)
EXTENDS Integers, Sequences, FiniteSets, TLC

VARIABLES
    ast,         \* the Spanned<Ast> handed to typecheck
    id_counter,  \* Engine.id_counter
    vars,        \* Engine.vars : TypeId -> Spanned<TypeInfo>
    bindings,    \* Typechecker.bindings : Scopes<&str, TypeId>, innermost frame last
    stack,       \* call stack of the walk, innermost call last
    ctl,         \* what the walk does next
    result,      \* what typecheck returned, or Pending
    calls,       \* spans of the nodes typecheck_statement / typecheck_expr were called on
    last,        \* outcome of the last Engine / Scopes / Error call made by a driver
    error        \* the Error handed to make_report and code by a driver

state == <<ast, id_counter, vars, bindings, stack, ctl, result, calls, last, error>>

(***************************************************************************)
(* Bounds of the model.                                                    *)
(***************************************************************************)
MaxNodes == 7        \* statements plus expression nodes of a program
MaxSlots == 3        \* slots the Engine driver allocates
MaxFrames == 3       \* frames the Scopes driver keeps on the stack
MaxCalls == 4        \* push_scope, pop_scope and insert calls the Scopes driver makes
MaxErrorNodes == 4   \* leaves plus aggregates of an Error handed to the Error driver

NameSeq == <<"x">>
NumSeq == <<1>>
PrefixOperatorSeq == <<"Negate">>
BinaryOperatorSeq == <<"Add", "Subtract", "Multiply", "Divide">>

Names == { NameSeq[i] : i \in DOMAIN NameSeq }

(***************************************************************************)
(* Syntax trees (crate::ast, used by typecheck.rs).                        *)
(***************************************************************************)
Spanned(v, span) == <<v, span>>

\* Spans are numbers.  The root has span RootSpan and the child `i` of the
\* node with span `p` has span Sub(p, i), different for every node; child 0
\* is the node's own payload (a name, an operator, a literal, a statement
\* list).
RootSpan == 1

Sub(p, i) == p * (MaxNodes + 2) + i

(***************************************************************************)
(* The syntax trees of a given number of nodes (statements and expression  *)
(* nodes), enumerated by index: CountX(n) is how many X have n nodes and   *)
(* NthX(n, p, i) is the i-th of them (from 0), its root having span p.     *)
(***************************************************************************)
RECURSIVE SumTo(_, _)
\* f[1] + ... + f[n]
SumTo(f, n) == IF n < 1 THEN 0 ELSE f[n] + SumTo(f, n - 1)

RECURSIVE CountExprs(_)
CountExprs(n) ==
    IF n < 1 THEN 0
    ELSE IF n = 1 THEN Len(NameSeq) + Len(NumSeq)
    ELSE Len(PrefixOperatorSeq) * CountExprs(n - 1)
         + Len(BinaryOperatorSeq)
           * SumTo([k \in 1 .. (n - 2) |-> CountExprs(k) * CountExprs(n - 1 - k)], n - 2)

NExprs == [n \in 0 .. MaxNodes |-> CountExprs(n)]

RECURSIVE CountLists(_)
\* Statement lists of n nodes in all; a statement of k nodes is an Expr, a
\* Print or a Let of an expression of k - 1 nodes, or a Block of k - 1 nodes.
CountLists(n) ==
    IF n = 0 THEN 1
    ELSE SumTo([k \in 1 .. n |->
                   ((2 + Len(NameSeq)) * NExprs[k - 1] + CountLists(k - 1))
                   * CountLists(n - k)], n)

NLists == [n \in 0 .. MaxNodes |-> CountLists(n)]

NStatements(n) == (2 + Len(NameSeq)) * NExprs[n - 1] + NLists[n - 1]

NPrograms == SumTo([k \in 1 .. (MaxNodes + 1) |-> NLists[k - 1]], MaxNodes + 1)

RECURSIVE NthExpr(_, _, _), NthBinary(_, _, _, _)
NthExpr(n, p, i) ==
    IF n = 1
    THEN IF i < Len(NameSeq)
         THEN Spanned([tag |-> "Var", name |-> Spanned(NameSeq[i + 1], Sub(p, 0))], p)
         ELSE Spanned([tag |-> "Literal",
                       literal |-> Spanned([tag |-> "Num", n |-> NumSeq[i - Len(NameSeq) + 1]],
                                           Sub(p, 0))], p)
    ELSE LET c == NExprs[n - 1]
         IN  IF i < Len(PrefixOperatorSeq) * c
             THEN Spanned([tag |-> "Prefix",
                           op |-> Spanned(PrefixOperatorSeq[(i \div c) + 1], Sub(p, 0)),
                           expr |-> NthExpr(n - 1, Sub(p, 1), i % c)], p)
             ELSE NthBinary(n, p, i - Len(PrefixOperatorSeq) * c, 1)

\* The i-th Binary expression among those whose lhs has at least k nodes.
NthBinary(n, p, i, k) ==
    LET nl == NExprs[k]
        nr == NExprs[n - 1 - k]
    IN  IF i >= Len(BinaryOperatorSeq) * nl * nr
        THEN NthBinary(n, p, i - Len(BinaryOperatorSeq) * nl * nr, k + 1)
        ELSE Spanned([tag |-> "Binary",
                      op |-> Spanned(BinaryOperatorSeq[(i \div (nl * nr)) + 1], Sub(p, 0)),
                      lhs |-> NthExpr(k, Sub(p, 1), (i % (nl * nr)) \div nr),
                      rhs |-> NthExpr(n - 1 - k, Sub(p, 2), i % nr)], p)

RECURSIVE NthStatement(_, _, _), NthList(_, _, _, _), NthListFrom(_, _, _, _, _)
NthStatement(n, p, i) ==
    LET c == NExprs[n - 1]
    IN  IF i < c
        THEN Spanned([tag |-> "Expr", expr |-> NthExpr(n - 1, Sub(p, 1), i)], p)
        ELSE IF i < 2 * c
        THEN Spanned([tag |-> "Print", expr |-> NthExpr(n - 1, Sub(p, 1), i - c)], p)
        ELSE IF i < (2 + Len(NameSeq)) * c
        THEN Spanned([tag |-> "Let",
                      name |-> Spanned(NameSeq[((i - 2 * c) \div c) + 1], Sub(p, 0)),
                      value |-> NthExpr(n - 1, Sub(p, 1), (i - 2 * c) % c)], p)
        ELSE Spanned([tag |-> "Block",
                      statements |-> Spanned(NthList(n - 1, p, 1, i - (2 + Len(NameSeq)) * c),
                                             Sub(p, 0))], p)

\* The i-th statement list of n nodes, its first statement being child j of
\* the node with span p.
NthList(n, p, j, i) == IF n = 0 THEN << >> ELSE NthListFrom(n, p, j, i, 1)

\* The i-th among those whose first statement has at least k nodes.
NthListFrom(n, p, j, i, k) ==
    LET c == NLists[n - k]
    IN  IF i >= NStatements(k) * c
        THEN NthListFrom(n, p, j, i - NStatements(k) * c, k + 1)
        ELSE <<NthStatement(k, Sub(p, j), i \div c)>> \o NthList(n - k, p, j + 1, i % c)

RECURSIVE NthProgramFrom(_, _)
\* The i-th Spanned<Ast> among those of at least n nodes.
NthProgramFrom(n, i) ==
    IF i >= NLists[n] THEN NthProgramFrom(n + 1, i - NLists[n])
    ELSE Spanned([statements |-> Spanned(NthList(n, RootSpan, 1, i), Sub(RootSpan, 0))],
                 RootSpan)

\* The i-th Spanned<Ast> of at most MaxNodes nodes, 0 <= i < NPrograms.
NthProgram(i) == NthProgramFrom(0, i)

(***************************************************************************)
(* HashMap<K, V>: a function whose domain is the set of keys present.      *)
(***************************************************************************)
EmptyMap == << >>

MapInsert(m, k, v) == [x \in (DOMAIN m) \cup {k} |-> IF x = k THEN v ELSE m[x]]

None == [tag |-> "None"]
Some(v) == [tag |-> "Some", v |-> v]

MapGet(m, k) == IF k \in DOMAIN m THEN Some(m[k]) ELSE None

(***************************************************************************)
(* Scopes<K, V>(Vec<HashMap<K, V>>), innermost frame last.                 *)
(***************************************************************************)
ScopesNew == << EmptyMap >>

\* A push_scope that pushes no frame.
PushScopeNothing(sc) == sc

PushScope(sc) == Append(sc, EmptyMap)

\* A pop_scope that keeps the frame.
PopScopeKeepsFrame(sc) == sc

\* Vec::pop: drops the last frame; on an empty Vec it returns None and
\* changes nothing.
PopScope(sc) == IF Len(sc) = 0 THEN sc ELSE SubSeq(sc, 1, Len(sc) - 1)

\* self.0.last_mut().unwrap() panics when there is no frame.
ScopesInsertPanics(sc) == Len(sc) = 0

\* An insert that keeps the binding the innermost frame already has for k.
ScopesInsertKeepsFirst(sc, k, v) ==
    IF k \in DOMAIN sc[Len(sc)] THEN sc
    ELSE [sc EXCEPT ![Len(sc)] = MapInsert(sc[Len(sc)], k, v)]

ScopesInsert(sc, k, v) == [sc EXCEPT ![Len(sc)] = MapInsert(sc[Len(sc)], k, v)]

RECURSIVE ScopesGetFrom(_, _, _)
\* The loop of Scopes::get over self.0.iter().rev(), at frame i.
ScopesGetFrom(sc, k, i) ==
    IF i = 0 THEN None
    ELSE IF k \in DOMAIN sc[i] THEN Some(sc[i][k])
    ELSE ScopesGetFrom(sc, k, i - 1)

\* A lookup that searches the innermost frame only.
ScopesGetInnermost(sc, k) == IF Len(sc) = 0 THEN None ELSE MapGet(sc[Len(sc)], k)

RECURSIVE ScopesGetOutermostFrom(_, _, _)
\* A lookup that walks the frames from the outermost to the innermost.
ScopesGetOutermostFrom(sc, k, i) ==
    IF i > Len(sc) THEN None
    ELSE IF k \in DOMAIN sc[i] THEN Some(sc[i][k])
    ELSE ScopesGetOutermostFrom(sc, k, i + 1)

ScopesGetOutermost(sc, k) == ScopesGetOutermostFrom(sc, k, 1)

ScopesGet(sc, k) == ScopesGetFrom(sc, k, Len(sc))

(***************************************************************************)
(* Types, TypeInfo and the Engine.                                         *)
(***************************************************************************)
TypeNum == "Num"

Unknown == [tag |-> "Unknown"]
Ref(id) == [tag |-> "Ref", id |-> id]
Num == [tag |-> "Num"]

Ok(v) == [tag |-> "Ok", v |-> v]
Err(e) == [tag |-> "Err", e |-> e]
\* A String: all it holds is its text.
String(text) == [text |-> text]
\* Unbounded recursion: the thread overflows its stack and the process aborts.
StackOverflow == [tag |-> "StackOverflow"]

\* A type_to_typeinfo that forgets the type.
TypeToTypeinfoUnknown(ty) == Spanned(Unknown, ty[2])

\* type_to_typeinfo: Type::Num => TypeInfo::Num, the span kept.
TypeToTypeinfo(ty) == Spanned(Num, ty[2])

EngineNew == [id_counter |-> 0, vars |-> EmptyMap]

Engine == [id_counter |-> id_counter, vars |-> vars]

\* An insert that hands out the current value of the counter again.
EngineInsertReuses(e, info) ==
    LET id == IF e.id_counter = 0 THEN 1 ELSE e.id_counter
    IN  [engine |-> [id_counter |-> id, vars |-> MapInsert(e.vars, id, info)],
         id |-> id]

\* Engine::insert: the engine after the call, and the id returned.
EngineInsert(e, info) ==
    LET id == e.id_counter + 1
    IN  [engine |-> [id_counter |-> id, vars |-> MapInsert(e.vars, id, info)],
         id |-> id]

\* A call chain that follows more Ref links than twice the number of slots
\* has met a slot twice and never ends.
UnifyDepth(vs) == 2 * Cardinality(DOMAIN vs) + 1

RECURSIVE UnifyAt(_, _, _, _)
\* Engine::unify at recursion depth d: the vars after the call and its result.
UnifyAt(vs, a, b, d) ==
    LET var_a == vs[a]
        var_b == vs[b]
    IN  IF d > UnifyDepth(vs) THEN [vars |-> vs, res |-> StackOverflow]
        ELSE IF var_a[1].tag = "Ref" THEN UnifyAt(vs, var_a[1].id, b, d + 1)
        ELSE IF var_b[1].tag = "Ref" THEN UnifyAt(vs, a, var_b[1].id, d + 1)
        ELSE IF var_a[1].tag = "Unknown"
             THEN [vars |-> MapInsert(vs, a, Spanned(Ref(b), var_b[2])), res |-> Ok(<<>>)]
        ELSE IF var_b[1].tag = "Unknown"
             THEN [vars |-> MapInsert(vs, b, Spanned(Ref(a), var_a[2])), res |-> Ok(<<>>)]
        ELSE [vars |-> vs, res |-> Ok(<<>>)]

\* A unify that does not follow the chains and writes slot a itself.
UnifyDirect(vs, a, b) ==
    [vars |-> MapInsert(vs, a, Spanned(Ref(b), vs[b][2])), res |-> Ok(<<>>)]

Unify(vs, a, b) == UnifyAt(vs, a, b, 0)

\* A chain longer than the number of slots has met a slot twice.
ReconstructDepth(vs) == Cardinality(DOMAIN vs) + 1

RECURSIVE ReconstructAt(_, _, _)
\* Engine::reconstruct at recursion depth d: Ok(Spanned<Type>), Err or overflow.
ReconstructAt(vs, id, d) ==
    LET var == vs[id]
    IN  IF d > ReconstructDepth(vs) THEN StackOverflow
        ELSE IF var[1].tag = "Unknown" THEN Err(String("cannot_infer_type"))
        ELSE IF var[1].tag = "Ref"
             THEN LET r == ReconstructAt(vs, var[1].id, d + 1)
                  IN  IF r.tag = "Ok" THEN Ok(Spanned(r.v[1], var[2])) ELSE r
        ELSE Ok(Spanned(TypeNum, var[2]))

Reconstruct(vs, id) == ReconstructAt(vs, id, 0)

\* Type::get_prefix_type, Type::get_binary_type, Literal::ty
GetPrefixType(ty, op) == Ok(TypeNum)

GetBinaryType(ty, rhs) == Ok(TypeNum)

LiteralTy(literal) == TypeNum

(***************************************************************************)
(* Lowering of the leaves of the syntax tree to the typed tree.            *)
(***************************************************************************)
LowerLiteral(literal) == Spanned([tag |-> "Num", n |-> literal[1].n], literal[2])

LowerPrefixOperator(op) == Spanned("Negate", op[2])

LowerBinaryOperator(op) ==
    Spanned(IF op[1] = "Add" THEN "Add"
            ELSE IF op[1] = "Subtract" THEN "Subtract"
            ELSE IF op[1] = "Multiply" THEN "Multiply"
            ELSE "Divide",
            op[2])


(***************************************************************************)
(* The checker.  typecheck() builds a fresh Typechecker and calls          *)
(* typecheck_ast.  A stack frame is a call that waits for a callee:        *)
(*   typecheck_ast / Block : the iteration over a statement list           *)
(*   Expr / Print / Let    : typecheck_statement waiting for its expression*)
(*   Prefix / BinaryLhs / BinaryRhs : typecheck_expr waiting for an operand*)
(* ctl.op is "start" (typecheck_ast not yet entered), "stmts" (the         *)
(* iteration on top of the stack asks for its next statement), "expr"      *)
(* (typecheck_expr is called on ctl.e), "ret" (typecheck_expr returned     *)
(* Ok(ctl.v)) or "done" (typecheck returned `result`).                     *)
(***************************************************************************)
Pending == [tag |-> "Pending"]

Top == stack[Len(stack)]

Pop(st) == SubSeq(st, 1, Len(st) - 1)

\* An Err that is recorded while the walk goes on as if the failed
\* expression had the numeric type.
FailRecovers(r) ==
    /\ result' = r
    /\ ctl' = [op |-> "ret", v |-> Spanned([expr |-> ctl.e[1], ty |-> TypeNum], ctl.e[2])]
    /\ stack' = stack

\* A `?` on an Err: every pending call returns it; typecheck returns it.
Fail(r) ==
    /\ result' = r
    /\ ctl' = [op |-> "done"]
    /\ stack' = << >>

\* typecheck_expr returns Ok(v) to the call on top of the stack.
ReturnExpr(st, v) ==
    /\ stack' = st
    /\ ctl' = [op |-> "ret", v |-> v]
    /\ result' = result

\* An iteration that collects the statement and hands the same statement to
\* typecheck_statement again.
ReturnStatementStays(st, s) ==
    /\ stack' = [st EXCEPT ![Len(st)].done = Append(@, s)]
    /\ ctl' = [op |-> "stmts"]
    /\ result' = result

\* typecheck_statement returns Ok(s) to the iteration below it, which
\* collects it and goes on.
ReturnStatement(st, s) ==
    /\ stack' = [st EXCEPT ![Len(st)].done = Append(@, s),
                           ![Len(st)].todo = Tail(@)]
    /\ ctl' = [op |-> "stmts"]
    /\ result' = result

\* typecheck_ast, up to the first statement.
TypecheckAst ==
    /\ ctl.op = "start"
    /\ bindings' = PushScope(bindings)
    /\ stack' = << [fn |-> "typecheck_ast", todo |-> ast[1].statements[1], done |-> << >>] >>
    /\ ctl' = [op |-> "stmts"]
    /\ UNCHANGED <<error, ast, id_counter, vars, result, calls, last>>

\* typecheck_ast once every statement returned Ok.
TypecheckAstEnd ==
    /\ ctl.op = "stmts"
    /\ Top.fn = "typecheck_ast"
    /\ Top.todo = << >>
    /\ bindings' = PopScope(bindings)
    /\ result' = Ok(Spanned([statements |-> Spanned(Top.done, ast[1].statements[2])],
                            ast[2]))
    /\ ctl' = [op |-> "done"]
    /\ stack' = << >>
    /\ UNCHANGED <<error, ast, id_counter, vars, calls, last>>

\* The statement the iteration on top of the stack hands to typecheck_statement.
NextStmt == Head(Top.todo)

AtStatement(tag) ==
    /\ ctl.op = "stmts"
    /\ Top.todo # << >>
    /\ NextStmt[1].tag = tag

\* typecheck_statement, ast::Statement::Expr, up to the call of typecheck_expr.
StatementExpr ==
    /\ AtStatement("Expr")
    /\ stack' = Append(stack, [fn |-> "Expr", span |-> NextStmt[2]])
    /\ ctl' = [op |-> "expr", e |-> NextStmt[1].expr]
    /\ calls' = Append(calls, NextStmt[2])
    /\ UNCHANGED <<error, ast, id_counter, vars, bindings, result, last>>

StatementExprEnd ==
    /\ ctl.op = "ret"
    /\ Top.fn = "Expr"
    /\ ReturnStatement(Pop(stack), Spanned([tag |-> "Expr", expr |-> ctl.v], Top.span))
    /\ UNCHANGED <<error, ast, id_counter, vars, bindings, calls, last>>

\* ast::Statement::Print
StatementPrint ==
    /\ AtStatement("Print")
    /\ stack' = Append(stack, [fn |-> "Print", span |-> NextStmt[2]])
    /\ ctl' = [op |-> "expr", e |-> NextStmt[1].expr]
    /\ calls' = Append(calls, NextStmt[2])
    /\ UNCHANGED <<error, ast, id_counter, vars, bindings, result, last>>

StatementPrintEnd ==
    /\ ctl.op = "ret"
    /\ Top.fn = "Print"
    /\ ReturnStatement(Pop(stack), Spanned([tag |-> "Print", expr |-> ctl.v], Top.span))
    /\ UNCHANGED <<error, ast, id_counter, vars, bindings, calls, last>>

\* ast::Statement::Block, up to the first statement of the block.
StatementBlock ==
    /\ AtStatement("Block")
    /\ bindings' = PushScope(bindings)
    /\ stack' = Append(stack, [fn |-> "Block", todo |-> NextStmt[1].statements[1],
                               done |-> << >>, span |-> NextStmt[2]])
    /\ ctl' = [op |-> "stmts"]
    /\ calls' = Append(calls, NextStmt[2])
    /\ UNCHANGED <<error, ast, id_counter, vars, result, last>>

\* The typed block: the collected statements, paired with stmt.1.
TypedBlock(statements, stmt_span) == [tag |-> "Block", statements |-> Spanned(statements, stmt_span)]

\* ast::Statement::Block once every statement of the block returned Ok.
StatementBlockEnd ==
    /\ ctl.op = "stmts"
    /\ Top.fn = "Block"
    /\ Top.todo = << >>
    /\ bindings' = PopScope(bindings)
    /\ ReturnStatement(Pop(stack), Spanned(TypedBlock(Top.done, Top.span), Top.span))
    /\ UNCHANGED <<error, ast, id_counter, vars, calls, last>>

\* A Let arm that allocates the variable's slot and binds the name before
\* its value is checked.
StatementLetBindsFirst ==
    /\ AtStatement("Let")
    /\ LET var_ty == EngineInsert(Engine, Spanned(Unknown, NextStmt[1].name[2]))
       IN  /\ id_counter' = var_ty.engine.id_counter
           /\ vars' = var_ty.engine.vars
           /\ bindings' = ScopesInsert(bindings, NextStmt[1].name[1], var_ty.id)
    /\ stack' = Append(stack, [fn |-> "Let", name |-> NextStmt[1].name, span |-> NextStmt[2]])
    /\ ctl' = [op |-> "expr", e |-> NextStmt[1].value]
    /\ calls' = Append(calls, NextStmt[2])
    /\ UNCHANGED <<error, ast, result, last>>

\* ast::Statement::Let, up to the call of typecheck_expr on the value.
StatementLet ==
    /\ AtStatement("Let")
    /\ stack' = Append(stack, [fn |-> "Let", name |-> NextStmt[1].name, span |-> NextStmt[2]])
    /\ ctl' = [op |-> "expr", e |-> NextStmt[1].value]
    /\ calls' = Append(calls, NextStmt[2])
    /\ UNCHANGED <<error, ast, id_counter, vars, bindings, result, last>>

\* The engine and the scopes after the body of the Let arm, given the typed
\* value: both inserts, the unify and the binding of the name.
LetBind(e, sc, name, value) ==
    LET value_ty == EngineInsert(e, TypeToTypeinfo(Spanned(value[1].ty, value[2])))
        var_ty == EngineInsert(value_ty.engine, Spanned(Unknown, name[2]))
        u == Unify(var_ty.engine.vars, value_ty.id, var_ty.id)
    IN  [engine |-> [id_counter |-> var_ty.engine.id_counter, vars |-> u.vars],
         res |-> u.res,
         bindings |-> IF u.res.tag = "Ok" /\ ~ScopesInsertPanics(sc)
                      THEN ScopesInsert(sc, name[1], var_ty.id) ELSE sc,
         panics |-> u.res.tag = "Ok" /\ ScopesInsertPanics(sc)]

\* ast::Statement::Let once the value returned Ok.
StatementLetEnd ==
    /\ ctl.op = "ret"
    /\ Top.fn = "Let"
    /\ LET b == LetBind(Engine, bindings, Top.name, ctl.v)
       IN  /\ id_counter' = b.engine.id_counter
           /\ vars' = b.engine.vars
           /\ bindings' = b.bindings
           /\ IF b.res.tag # "Ok" THEN Fail(b.res)
              ELSE IF b.panics THEN Fail([tag |-> "Panic"])
              ELSE ReturnStatement(Pop(stack),
                       Spanned([tag |-> "Let", name |-> Top.name, value |-> ctl.v], Top.span))
    /\ UNCHANGED <<error, ast, calls, last>>


AtExpr(tag) ==
    /\ ctl.op = "expr"
    /\ ctl.e[1].tag = tag

\* The Var arm of typecheck_expr: the lookup and the reconstruct.
VarType(sc, vs, name) ==
    LET ty == ScopesGet(sc, name[1])
    IN  IF ty.tag = "None" THEN Err(String("undefined_variable"))
        ELSE LET r == Reconstruct(vs, ty.v)
             IN  IF r.tag = "Ok" THEN Ok(r.v[1]) ELSE r

\* typecheck_expr, ast::Expr::Var
ExprVar ==
    /\ AtExpr("Var")
    /\ LET name == ctl.e[1].name
           ty == VarType(bindings, vars, name)
       IN  IF ty.tag # "Ok" THEN Fail(ty)
           ELSE ReturnExpr(stack, Spanned([expr |-> [tag |-> "Var", name |-> name],
                                           ty |-> ty.v], ctl.e[2]))
    /\ calls' = Append(calls, ctl.e[2])
    /\ UNCHANGED <<error, ast, id_counter, vars, bindings, last>>

\* ast::Expr::Literal
ExprLiteral ==
    /\ AtExpr("Literal")
    /\ LET literal == LowerLiteral(ctl.e[1].literal)
       IN  ReturnExpr(stack, Spanned([expr |-> [tag |-> "Literal", literal |-> literal],
                                      ty |-> LiteralTy(literal[1])], ctl.e[2]))
    /\ calls' = Append(calls, ctl.e[2])
    /\ UNCHANGED <<error, ast, id_counter, vars, bindings, last>>

\* ast::Expr::Prefix, up to the call of typecheck_expr on the operand.
ExprPrefix ==
    /\ AtExpr("Prefix")
    /\ stack' = Append(stack, [fn |-> "Prefix", op |-> LowerPrefixOperator(ctl.e[1].op),
                               span |-> ctl.e[2]])
    /\ ctl' = [op |-> "expr", e |-> ctl.e[1].expr]
    /\ calls' = Append(calls, ctl.e[2])
    /\ UNCHANGED <<error, ast, id_counter, vars, bindings, result, last>>

\* The Prefix arm after its operand: the insert, the reconstruct and the
\* operator table.
PrefixType(e, op, expr) ==
    LET expr_id == EngineInsert(e, TypeToTypeinfo(Spanned(expr[1].ty, expr[2])))
        expr_ty == Reconstruct(expr_id.engine.vars, expr_id.id)
    IN  [engine |-> expr_id.engine,
         res |-> IF expr_ty.tag = "Ok" THEN GetPrefixType(expr_ty.v[1], op[1]) ELSE expr_ty]

\* ast::Expr::Prefix once the operand returned Ok.
ExprPrefixEnd ==
    /\ ctl.op = "ret"
    /\ Top.fn = "Prefix"
    /\ LET t == PrefixType(Engine, Top.op, ctl.v)
       IN  /\ id_counter' = t.engine.id_counter
           /\ vars' = t.engine.vars
           /\ IF t.res.tag # "Ok" THEN Fail(t.res)
              ELSE ReturnExpr(Pop(stack),
                       Spanned([expr |-> [tag |-> "Prefix", op |-> Top.op, expr |-> ctl.v],
                                ty |-> t.res.v], Top.span))
    /\ UNCHANGED <<error, ast, bindings, calls, last>>

\* ast::Expr::Binary, up to the call of typecheck_expr on lhs.
ExprBinary ==
    /\ AtExpr("Binary")
    /\ stack' = Append(stack, [fn |-> "BinaryLhs", op |-> LowerBinaryOperator(ctl.e[1].op),
                               rhs |-> ctl.e[1].rhs, span |-> ctl.e[2]])
    /\ ctl' = [op |-> "expr", e |-> ctl.e[1].lhs]
    /\ calls' = Append(calls, ctl.e[2])
    /\ UNCHANGED <<error, ast, id_counter, vars, bindings, result, last>>

\* ast::Expr::Binary once lhs returned Ok: lhs_id is inserted and
\* typecheck_expr is called on rhs.
ExprBinaryRhs ==
    /\ ctl.op = "ret"
    /\ Top.fn = "BinaryLhs"
    /\ LET lhs_id == EngineInsert(Engine, TypeToTypeinfo(Spanned(ctl.v[1].ty, ctl.v[2])))
       IN  /\ id_counter' = lhs_id.engine.id_counter
           /\ vars' = lhs_id.engine.vars
           /\ stack' = Append(Pop(stack), [fn |-> "BinaryRhs", op |-> Top.op, lhs |-> ctl.v,
                                           lhs_id |-> lhs_id.id, span |-> Top.span])
    /\ ctl' = [op |-> "expr", e |-> Top.rhs]
    /\ UNCHANGED <<error, ast, bindings, result, calls, last>>

\* The Binary arm after rhs: the insert, the unify, both reconstructs and the
\* operator table.
BinaryType(e, lhs_id, rhs) ==
    LET rhs_id == EngineInsert(e, TypeToTypeinfo(Spanned(rhs[1].ty, rhs[2])))
        u == Unify(rhs_id.engine.vars, lhs_id, rhs_id.id)
        lhs_ty == Reconstruct(u.vars, lhs_id)
        rhs_ty == Reconstruct(u.vars, rhs_id.id)
    IN  [engine |-> [id_counter |-> rhs_id.engine.id_counter, vars |-> u.vars],
         res |-> IF u.res.tag # "Ok" THEN u.res
                 ELSE IF lhs_ty.tag # "Ok" THEN lhs_ty
                 ELSE IF rhs_ty.tag # "Ok" THEN rhs_ty
                 ELSE GetBinaryType(lhs_ty.v[1], rhs_ty.v[1])]

\* ast::Expr::Binary once rhs returned Ok.
ExprBinaryEnd ==
    /\ ctl.op = "ret"
    /\ Top.fn = "BinaryRhs"
    /\ LET t == BinaryType(Engine, Top.lhs_id, ctl.v)
       IN  /\ id_counter' = t.engine.id_counter
           /\ vars' = t.engine.vars
           /\ IF t.res.tag # "Ok" THEN Fail(t.res)
              ELSE ReturnExpr(Pop(stack),
                       Spanned([expr |-> [tag |-> "Binary", op |-> Top.op,
                                          lhs |-> Top.lhs, rhs |-> ctl.v],
                                ty |-> t.res.v], Top.span))
    /\ UNCHANGED <<error, ast, bindings, calls, last>>

(***************************************************************************)
(* typecheck(ast) on every syntax tree of at most MaxNodes nodes.          *)
(***************************************************************************)
Init ==
    /\ \E i \in 0 .. (NPrograms - 1) : ast = NthProgram(i)
    /\ id_counter = EngineNew.id_counter
    /\ vars = EngineNew.vars
    /\ bindings = ScopesNew
    /\ stack = << >>
    /\ ctl = [op |-> "start"]
    /\ result = Pending
    /\ calls = << >>
    /\ last = None
    /\ error = None

Next ==
    \/ TypecheckAst
    \/ TypecheckAstEnd
    \/ StatementExpr
    \/ StatementExprEnd
    \/ StatementPrint
    \/ StatementPrintEnd
    \/ StatementBlock
    \/ StatementBlockEnd
    \/ StatementLet
    \/ StatementLetEnd
    \/ ExprVar
    \/ ExprLiteral
    \/ ExprPrefix
    \/ ExprPrefixEnd
    \/ ExprBinary
    \/ ExprBinaryRhs
    \/ ExprBinaryEnd

Spec == Init /\ [][Next]_state

\* The walk is one thread that runs until typecheck returns.
FairSpec == Spec /\ WF_state(Next)


(***************************************************************************)
(* The Engine on its own: any sequence of insert, unify and reconstruct    *)
(* calls on allocated ids.  `last` is the outcome of the last call.  A     *)
(* call that overflows the stack ends the process.                         *)
(***************************************************************************)
DriverSpans == {1, 2}

Alive == last.tag # "StackOverflow" /\ last.tag # "Panic"

EngineInit ==
    /\ ast = NthProgram(0)
    /\ id_counter = EngineNew.id_counter
    /\ vars = EngineNew.vars
    /\ bindings = ScopesNew
    /\ stack = << >>
    /\ ctl = [op |-> "driver"]
    /\ result = Pending
    /\ calls = << >>
    /\ last = None
    /\ error = None

CallInsert ==
    /\ Alive
    /\ id_counter < MaxSlots
    /\ \E info \in {Unknown, Num}, span \in DriverSpans :
          LET r == EngineInsert(Engine, Spanned(info, span))
          IN  /\ id_counter' = r.engine.id_counter
              /\ vars' = r.engine.vars
              /\ last' = Some(r.id)
    /\ UNCHANGED <<error, ast, bindings, stack, ctl, result, calls>>

CallUnify ==
    /\ Alive
    /\ \E a \in DOMAIN vars, b \in DOMAIN vars :
          LET u == Unify(vars, a, b)
          IN  /\ vars' = u.vars
              /\ last' = u.res
    /\ UNCHANGED <<error, ast, id_counter, bindings, stack, ctl, result, calls>>

CallReconstruct ==
    /\ Alive
    /\ \E id \in DOMAIN vars :
          last' = Reconstruct(vars, id)
    /\ UNCHANGED <<error, ast, id_counter, vars, bindings, stack, ctl, result, calls>>

EngineNext ==
    \/ CallInsert
    \/ CallUnify
    \/ CallReconstruct

EngineSpec == EngineInit /\ [][EngineNext]_state

(***************************************************************************)
(* Scopes on its own: any sequence of push_scope, pop_scope, insert and    *)
(* get calls.  `calls` is the sequence of push_scope, pop_scope and insert  *)
(* calls made, `last` the outcome of the last call.  An insert with no     *)
(* frame on the stack panics and ends the process.                         *)
(***************************************************************************)
DriverKeys == {"x", "y"}
DriverValues == {1, 2}

ScopesInit ==
    /\ ast = NthProgram(0)
    /\ id_counter = EngineNew.id_counter
    /\ vars = EngineNew.vars
    /\ bindings = ScopesNew
    /\ stack = << >>
    /\ ctl = [op |-> "driver"]
    /\ result = Pending
    /\ calls = << >>
    /\ last = None
    /\ error = None

CallPushScope ==
    /\ Alive
    /\ Len(calls) < MaxCalls
    /\ Len(bindings) < MaxFrames
    /\ bindings' = PushScope(bindings)
    /\ last' = None
    /\ calls' = Append(calls, [call |-> "push_scope"])
    /\ UNCHANGED <<error, ast, id_counter, vars, stack, ctl, result>>

CallPopScope ==
    /\ Alive
    /\ Len(calls) < MaxCalls
    /\ bindings' = PopScope(bindings)
    /\ last' = None
    /\ calls' = Append(calls, [call |-> "pop_scope"])
    /\ UNCHANGED <<error, ast, id_counter, vars, stack, ctl, result>>

CallScopesInsert ==
    /\ Alive
    /\ Len(calls) < MaxCalls
    /\ \E k \in DriverKeys, v \in DriverValues :
          /\ IF ScopesInsertPanics(bindings)
             THEN bindings' = bindings /\ last' = [tag |-> "Panic"]
             ELSE bindings' = ScopesInsert(bindings, k, v) /\ last' = None
          /\ calls' = Append(calls, [call |-> "insert", k |-> k, v |-> v])
    /\ UNCHANGED <<error, ast, id_counter, vars, stack, ctl, result>>

CallScopesGet ==
    /\ Alive
    /\ \E k \in DriverKeys :
          last' = ScopesGet(bindings, k)
    /\ UNCHANGED <<error, ast, id_counter, vars, bindings, stack, ctl, result, calls>>

ScopesNext ==
    \/ CallPushScope
    \/ CallPopScope
    \/ CallScopesInsert
    \/ CallScopesGet

ScopesSpec == ScopesInit /\ [][ScopesNext]_state


(***************************************************************************)
(* Reading the syntax tree and the typed tree.                             *)
(***************************************************************************)
Done == ctl.op = "done"

Last(seq) == seq[Len(seq)]

IsPrefix(a, b) == Len(a) <= Len(b) /\ SubSeq(b, 1, Len(a)) = a

RECURSIVE ExprPreorder(_)
\* The spans of the nodes of an expression, an operator before its operands
\* and lhs before rhs.
ExprPreorder(e) ==
    IF e[1].tag = "Prefix" THEN <<e[2]>> \o ExprPreorder(e[1].expr)
    ELSE IF e[1].tag = "Binary"
         THEN <<e[2]>> \o ExprPreorder(e[1].lhs) \o ExprPreorder(e[1].rhs)
    ELSE <<e[2]>>

RECURSIVE StatementPreorder(_), ListPreorder(_)
StatementPreorder(s) ==
    IF s[1].tag = "Block" THEN <<s[2]>> \o ListPreorder(s[1].statements[1])
    ELSE IF s[1].tag = "Let" THEN <<s[2]>> \o ExprPreorder(s[1].value)
    ELSE <<s[2]>> \o ExprPreorder(s[1].expr)

ListPreorder(l) ==
    IF l = << >> THEN << >> ELSE StatementPreorder(Head(l)) \o ListPreorder(Tail(l))

\* The statements and expressions of the program, in depth-first,
\* left-to-right order.
Preorder == ListPreorder(ast[1].statements[1])

RECURSIVE ExprUnbound(_, _)
\* The spans of the variable references of e whose name is not in `visible`,
\* in depth-first, left-to-right order.
ExprUnbound(e, visible) ==
    IF e[1].tag = "Var" THEN IF e[1].name[1] \in visible THEN << >> ELSE <<e[2]>>
    ELSE IF e[1].tag = "Prefix" THEN ExprUnbound(e[1].expr, visible)
    ELSE IF e[1].tag = "Binary"
         THEN ExprUnbound(e[1].lhs, visible) \o ExprUnbound(e[1].rhs, visible)
    ELSE << >>

RECURSIVE ListUnbound(_, _)
\* The same for a statement list entered with the names `visible` in scope: a
\* let makes its name visible to the statements after it in its own list
\* (and the blocks among them), and to nothing else.
ListUnbound(l, visible) ==
    IF l = << >> THEN << >>
    ELSE LET s == Head(l)
         IN  IF s[1].tag = "Block"
             THEN ListUnbound(s[1].statements[1], visible) \o ListUnbound(Tail(l), visible)
             ELSE IF s[1].tag = "Let"
             THEN ExprUnbound(s[1].value, visible)
                  \o ListUnbound(Tail(l), visible \cup {s[1].name[1]})
             ELSE ExprUnbound(s[1].expr, visible) \o ListUnbound(Tail(l), visible)

\* The variable references of the program with no visible binding at the
\* point of use.
Unbound == ListUnbound(ast[1].statements[1], {})

WellScoped == Unbound = << >>

SeqRange(seq) == { seq[i] : i \in DOMAIN seq }

RECURSIVE ListExprSpans(_)
\* The spans of the expression nodes of a statement list.
ListExprSpans(l) ==
    IF l = << >> THEN {}
    ELSE LET s == Head(l)
         IN  (IF s[1].tag = "Block" THEN ListExprSpans(s[1].statements[1])
              ELSE IF s[1].tag = "Let" THEN SeqRange(ExprPreorder(s[1].value))
              ELSE SeqRange(ExprPreorder(s[1].expr)))
             \cup ListExprSpans(Tail(l))

ExprSpans == ListExprSpans(ast[1].statements[1])

RECURSIVE TypedExprs(_)
\* The expression nodes of a typed expression.
TypedExprs(e) ==
    {e} \cup
    (IF e[1].expr.tag = "Prefix" THEN TypedExprs(e[1].expr.expr)
     ELSE IF e[1].expr.tag = "Binary"
          THEN TypedExprs(e[1].expr.lhs) \cup TypedExprs(e[1].expr.rhs)
     ELSE {})

RECURSIVE TypedListExprs(_)
\* The expression nodes of a list of typed statements.
TypedListExprs(l) ==
    IF l = << >> THEN {}
    ELSE LET s == Head(l)
         IN  (IF s[1].tag = "Block" THEN TypedListExprs(s[1].statements[1])
              ELSE IF s[1].tag = "Let" THEN TypedExprs(s[1].value)
              ELSE TypedExprs(s[1].expr))
             \cup TypedListExprs(Tail(l))

\* The expression nodes of the typed tree typecheck returned.
ResultExprs == TypedListExprs(result.v[1].statements[1])

(***************************************************************************)
(* C1.  A program in which every variable reference has a visible binding  *)
(* at the point of use (a preceding let in the same or an enclosing        *)
(* statement list) checks successfully, and every expression node of the   *)
(* typed tree returned has the numeric type.                               *)
(***************************************************************************)
C1_WellScopedProgramsCheck ==
    WellScoped =>
        /\ result.tag \in {"Pending", "Ok"}
        /\ Done => /\ result.tag = "Ok"
                   /\ { e[2] : e \in ResultExprs } = ExprSpans
                   /\ \A e \in ResultExprs : e[1].ty = TypeNum

\* A well-scoped program that holds a variable reference, a literal, a
\* prefix and a binary operation has been checked.
C1_Witness ==
    /\ WellScoped
    /\ Done
    /\ result.tag = "Ok"
    /\ { e[1].expr.tag : e \in ResultExprs } = {"Var", "Literal", "Prefix", "Binary"}

(***************************************************************************)
(* The variable reference typecheck_expr is about to check, and whether    *)
(* its name is bound in some frame of the scope stack.                     *)
(***************************************************************************)
AtVar == ctl.op = "expr" /\ ctl.e[1].tag = "Var"

BoundInSomeFrame(sc, k) == \E i \in DOMAIN sc : k \in DOMAIN sc[i]

\* The diagnostic d names `name` and points at `span`
\* (TypecheckError::UndefinedVariable { name, span } of error.rs).
CarriesNameAndSpan(d, name, span) ==
    /\ "name" \in DOMAIN d
    /\ d.name = name
    /\ "span" \in DOMAIN d
    /\ d.span = span

(***************************************************************************)
(* C2.  Checking a variable reference whose name is bound in no frame of   *)
(* the scope stack fails with an undefined-variable diagnostic that        *)
(* carries the name and the span of the use site.                          *)
(***************************************************************************)
C2_UndefinedVariableCarriesNameAndSpan ==
    [][ (AtVar /\ ~BoundInSomeFrame(bindings, ctl.e[1].name[1]))
        => /\ result'.tag = "Err"
           /\ result'.e.text = "undefined_variable"
           /\ CarriesNameAndSpan(result'.e, ctl.e[1].name[1], ctl.e[2]) ]_state

(***************************************************************************)
(* The Let whose value is being checked: its frame is on the call stack    *)
(* from the call of typecheck_expr on the value until that call returns.   *)
(***************************************************************************)
InLet(st) == \E i \in DOMAIN st : st[i].fn = "Let"

LetFrame(st) == st[CHOOSE i \in DOMAIN st : st[i].fn = "Let"]

\* typecheck_expr has returned the typed value to the Let arm.
LetValueChecked == ctl.op = "ret" /\ Top.fn = "Let"

(***************************************************************************)
(* C3.  A let binds its name only after its value has been checked.  From  *)
(* the moment the Let arm is entered until its value is returned, no step  *)
(* changes the scope stack, so inside the initializer the name resolves    *)
(* as it did before the let; a reference to the let's own name with no     *)
(* earlier binding fails with undefined_variable; a failing initializer    *)
(* leaves the scope stack as it was; and once the value has been checked   *)
(* the name is bound, in the innermost frame, to the slot just allocated.  *)
(***************************************************************************)
C3_LetBindsAfterValue ==
    [][ /\ (AtStatement("Let") \/ (InLet(stack) /\ ~LetValueChecked))
           => /\ bindings' = bindings
              /\ result'.tag = "Err" => ~InLet(stack')
        /\ (AtVar /\ InLet(stack) /\ ctl.e[1].name[1] = LetFrame(stack).name[1]
                  /\ ctl.e[2] \in SeqRange(Unbound))
           => /\ result' = Err(String("undefined_variable"))
              /\ ScopesGet(bindings', ctl.e[1].name[1]) = None
        /\ LetValueChecked
           => /\ result' = result
              /\ Len(bindings') = Len(bindings)
              /\ MapGet(bindings'[Len(bindings')], Top.name[1]) = Some(id_counter')
              /\ id_counter' = id_counter + 2 ]_state

\* `let x = x` as the first statement of a program has been checked: it
\* failed with undefined_variable and x is bound in no frame.
C3_Witness ==
    /\ ast[1].statements[1] # << >>
    /\ LET s == Head(ast[1].statements[1])
       IN  /\ s[1].tag = "Let"
           /\ s[1].value[1].tag = "Var"
           /\ s[1].value[1].name[1] = s[1].name[1]
           /\ calls = <<s[2], s[1].value[2]>>
           /\ result = Err(String("undefined_variable"))
           /\ ~BoundInSomeFrame(bindings, s[1].name[1])

(***************************************************************************)
(* Scoping read off the syntax tree.                                       *)
(***************************************************************************)
RECURSIVE ListScopeAt(_, _, _)
\* The lets visible at the expression node with span `target` of the
\* statement list l, entered with the lets `env` visible: Some(map from a
\* name to the nearest preceding Let statement of that name in the same or
\* an enclosing statement list), or None if the node is not in l.
ListScopeAt(l, env, target) ==
    IF l = << >> THEN None
    ELSE LET s == Head(l)
         IN  IF s[1].tag = "Block"
             THEN LET r == ListScopeAt(s[1].statements[1], env, target)
                  IN  IF r.tag = "Some" THEN r ELSE ListScopeAt(Tail(l), env, target)
             ELSE IF s[1].tag = "Let"
             THEN IF target \in SeqRange(ExprPreorder(s[1].value)) THEN Some(env)
                  ELSE ListScopeAt(Tail(l), MapInsert(env, s[1].name[1], s), target)
             ELSE IF target \in SeqRange(ExprPreorder(s[1].expr)) THEN Some(env)
                  ELSE ListScopeAt(Tail(l), env, target)

ScopeAt(target) == ListScopeAt(ast[1].statements[1], EmptyMap, target).v

RECURSIVE ListLetNames(_)
\* The names bound by the lets of a statement list, nested blocks included.
ListLetNames(l) ==
    IF l = << >> THEN {}
    ELSE LET s == Head(l)
         IN  (IF s[1].tag = "Block" THEN ListLetNames(s[1].statements[1])
              ELSE IF s[1].tag = "Let" THEN {s[1].name[1]}
              ELSE {})
             \cup ListLetNames(Tail(l))

RECURSIVE ListEndedBlockNames(_, _)
\* The names bound by lets inside the blocks of l that end before the node
\* with span `target`.
ListEndedBlockNames(l, target) ==
    IF l = << >> THEN {}
    ELSE LET s == Head(l)
         IN  IF target \in SeqRange(StatementPreorder(s))
             THEN IF s[1].tag = "Block"
                  THEN ListEndedBlockNames(s[1].statements[1], target)
                  ELSE {}
             ELSE IF target \in SeqRange(ListPreorder(Tail(l)))
             THEN (IF s[1].tag = "Block" THEN ListLetNames(s[1].statements[1]) ELSE {})
                  \cup ListEndedBlockNames(Tail(l), target)
             ELSE {}

EndedBlockNames(target) == ListEndedBlockNames(ast[1].statements[1], target)

\* Slot id is the variable slot the Let statement s allocated, as that let
\* left it: a reference to the slot of its value (Engine::unify writes
\* (Ref(value_ty), span of the value) into it), the value's slot being Num.
IsSlotOfLet(vs, id, s) ==
    /\ id \in DOMAIN vs
    /\ id - 1 \in DOMAIN vs
    /\ vs[id] = Spanned(Ref(id - 1), s[1].value[2])
    /\ vs[id - 1] = Spanned(Num, s[1].value[2])

(***************************************************************************)
(* C4.  A name bound by a let inside a block is not visible after the      *)
(* block has ended.  When a reference to such a name is checked after the  *)
(* block: if no let of the same or an enclosing statement list binds the   *)
(* name before the reference, the check fails with undefined_variable;     *)
(* otherwise the reference resolves to the slot of that enclosing let, the *)
(* slot as the let left it, and the reference gets the numeric type.       *)
(***************************************************************************)
C4_BlockBindingsDoNotEscape ==
    [][ (AtVar /\ ctl.e[1].name[1] \in EndedBlockNames(ctl.e[2]))
        => LET name == ctl.e[1].name[1]
               visible == ScopeAt(ctl.e[2])
           IN  IF name \notin DOMAIN visible
               THEN /\ result' = Err(String("undefined_variable"))
                    /\ ~BoundInSomeFrame(bindings, name)
               ELSE /\ ScopesGet(bindings, name).tag = "Some"
                    /\ IsSlotOfLet(vars, ScopesGet(bindings, name).v, visible[name])
                    /\ result' = result
                    /\ ctl' = [op |-> "ret",
                               v |-> Spanned([expr |-> [tag |-> "Var", name |-> ctl.e[1].name],
                                              ty |-> TypeNum], ctl.e[2])] ]_state

\* A reference to a name bound only inside a block that has ended has been
\* checked, and the check failed.
C4_Witness ==
    /\ result = Err(String("undefined_variable"))
    /\ calls # << >>
    /\ Last(calls) \in SeqRange(Unbound)
    /\ \E name \in Names :
          /\ name \in EndedBlockNames(Last(calls))
          /\ name \notin DOMAIN ScopeAt(Last(calls))

\* A reference to a name bound both by an enclosing let and by a let inside
\* a block that has ended has been checked, and the check succeeded.
C4_WitnessEnclosing ==
    /\ ctl.op = "ret"
    /\ ctl.v[1].expr.tag = "Var"
    /\ ctl.v[1].expr.name[1] \in EndedBlockNames(ctl.v[2])
    /\ ctl.v[1].expr.name[1] \in DOMAIN ScopeAt(ctl.v[2])

RECURSIVE ListFrameLetsAt(_, _, _)
\* The Let statements that precede the expression node with span `target`
\* in the statement list that holds it directly (its frame), in order:
\* Some(sequence), or None if the node is not in l.  `lets` are those met so
\* far in l.
ListFrameLetsAt(l, lets, target) ==
    IF l = << >> THEN None
    ELSE LET s == Head(l)
         IN  IF s[1].tag = "Block"
             THEN LET r == ListFrameLetsAt(s[1].statements[1], << >>, target)
                  IN  IF r.tag = "Some" THEN r ELSE ListFrameLetsAt(Tail(l), lets, target)
             ELSE IF s[1].tag = "Let"
             THEN IF target \in SeqRange(ExprPreorder(s[1].value)) THEN Some(lets)
                  ELSE ListFrameLetsAt(Tail(l), Append(lets, s), target)
             ELSE IF target \in SeqRange(ExprPreorder(s[1].expr)) THEN Some(lets)
                  ELSE ListFrameLetsAt(Tail(l), lets, target)

\* Those of them that bind `name`.
FrameLetsOf(target, name) ==
    LET Binds(s) == s[1].name[1] = name
    IN  SelectSeq(ListFrameLetsAt(ast[1].statements[1], << >>, target).v, Binds)

RECURSIVE ListHasTwoLets(_, _)
\* Some statement list of l (l itself, entered with the names `seen` bound
\* by its earlier lets, or the list of a block in it) holds two lets of one
\* name.
ListHasTwoLets(l, seen) ==
    IF l = << >> THEN FALSE
    ELSE LET s == Head(l)
         IN  \/ s[1].tag = "Block" /\ ListHasTwoLets(s[1].statements[1], {})
             \/ s[1].tag = "Let" /\ s[1].name[1] \in seen
             \/ ListHasTwoLets(Tail(l), IF s[1].tag = "Let" THEN seen \cup {s[1].name[1]}
                                        ELSE seen)

HasTwoLets == ListHasTwoLets(ast[1].statements[1], {})

(***************************************************************************)
(* C5.  When two lets of the same name have been checked in the same       *)
(* frame, the second overwrites the first: a later reference to the name   *)
(* in that frame finds, in the innermost frame, the slot allocated by the  *)
(* last of these lets and not the slot of an earlier one, its check        *)
(* succeeds with the numeric type, and a program all of whose references   *)
(* have a visible binding is not rejected.                                  *)
(***************************************************************************)
C5_SecondLetOverwrites ==
    [][ /\ (AtVar /\ Len(FrameLetsOf(ctl.e[2], ctl.e[1].name[1])) >= 2)
           => LET name == ctl.e[1].name[1]
                  lets == FrameLetsOf(ctl.e[2], name)
                  found == ScopesGet(bindings, name)
              IN  /\ found.tag = "Some"
                  /\ found = MapGet(bindings[Len(bindings)], name)
                  /\ IsSlotOfLet(vars, found.v, Last(lets))
                  /\ \A i \in 1 .. (Len(lets) - 1) : ~IsSlotOfLet(vars, found.v, lets[i])
                  /\ ctl' = [op |-> "ret",
                             v |-> Spanned([expr |-> [tag |-> "Var", name |-> ctl.e[1].name],
                                            ty |-> TypeNum], ctl.e[2])]
                  /\ result' = result
        /\ (HasTwoLets /\ WellScoped) => result'.tag \in {"Pending", "Ok"} ]_state

\* A reference that follows two lets of its name in its own frame has been
\* checked.
C5_Witness ==
    /\ ctl.op = "ret"
    /\ ctl.v[1].expr.tag = "Var"
    /\ Len(FrameLetsOf(ctl.v[2], ctl.v[1].expr.name[1])) >= 2
    /\ ScopesGet(bindings, ctl.v[1].expr.name[1]).tag = "Some"
    /\ IsSlotOfLet(vars, ScopesGet(bindings, ctl.v[1].expr.name[1]).v,
                   Last(FrameLetsOf(ctl.v[2], ctl.v[1].expr.name[1])))

(***************************************************************************)
(* A scope table as the list of what was done to it: each frame is the     *)
(* sequence of the <<key, value>> pairs inserted into it, oldest first.    *)
(***************************************************************************)
RECURSIVE Replay(_)
\* The frames after the push_scope, pop_scope and insert calls `cs` on a new
\* table (one frame).  A pop_scope or an insert with no frame changes
\* nothing.
Replay(cs) ==
    IF cs = << >> THEN << << >> >>
    ELSE LET c == Last(cs)
             before == Replay(SubSeq(cs, 1, Len(cs) - 1))
             n == Len(before)
         IN  IF c.call = "push_scope" THEN Append(before, << >>)
             ELSE IF n = 0 THEN before
             ELSE IF c.call = "pop_scope" THEN SubSeq(before, 1, n - 1)
             ELSE [before EXCEPT ![n] = Append(@, <<c.k, c.v>>)]

\* The value last inserted for k into a frame, if any.
LastInserted(frame, k) ==
    LET at == { i \in DOMAIN frame : frame[i][1] = k }
    IN  IF at = {} THEN None
        ELSE Some(frame[CHOOSE i \in at : \A j \in at : j <= i][2])

\* The value last inserted for k into the innermost frame that holds k.
InnermostInserted(frames, k) ==
    LET holding == { i \in DOMAIN frames : LastInserted(frames[i], k).tag = "Some" }
    IN  IF holding = {} THEN None
        ELSE LastInserted(frames[CHOOSE i \in holding : \A j \in holding : j <= i], k)

(***************************************************************************)
(* C6.  After any sequence of push_scope, pop_scope and insert calls on a  *)
(* scope table, get(key) returns the value last inserted for key into the  *)
(* innermost frame still on the stack that holds key, and not-found when   *)
(* no frame on the stack holds key; and every frame holds exactly what was *)
(* inserted into it, so that an insert changes the innermost frame only    *)
(* and a binding in an inner frame hides, but does not alter, the binding  *)
(* of the same key in an outer frame.                                      *)
(***************************************************************************)
C6_GetFindsInnermostBinding ==
    Alive =>
        LET frames == Replay(calls)
        IN  /\ Len(bindings) = Len(frames)
            /\ \A k \in DriverKeys :
                  /\ ScopesGet(bindings, k) = InnermostInserted(frames, k)
                  /\ \A i \in DOMAIN bindings :
                        MapGet(bindings[i], k) = LastInserted(frames[i], k)

\* get has just returned the inner of two different bindings of one key.
C6_Witness ==
    /\ Alive
    /\ \E k \in DriverKeys :
          /\ Len(bindings) >= 2
          /\ k \in DOMAIN bindings[Len(bindings)]
          /\ \E i \in 1 .. (Len(bindings) - 1) :
                /\ k \in DOMAIN bindings[i]
                /\ bindings[i][k] # bindings[Len(bindings)][k]
          /\ last = Some(bindings[Len(bindings)][k])

(***************************************************************************)
(* The forward-reference chain of a slot.                                  *)
(***************************************************************************)
RECURSIVE ChainFrom(_, _, _)
\* The slots met from id by following Ref links, id first, at most n + 1 of
\* them.
ChainFrom(vs, id, n) ==
    IF vs[id][1].tag = "Ref" /\ n > 0
    THEN <<id>> \o ChainFrom(vs, vs[id][1].id, n - 1)
    ELSE <<id>>

\* With as many links as there are slots, a chain that has an end reaches it.
Chain(vs, id) == ChainFrom(vs, id, Cardinality(DOMAIN vs))

ChainEnd(vs, id) == Last(Chain(vs, id))

ChainEnds(vs, id) == vs[ChainEnd(vs, id)][1].tag # "Ref"

(***************************************************************************)
(* C7.  For every allocated slot id, reconstruct(id) follows the slot's    *)
(* forward-reference chain to its end and returns the concrete type found  *)
(* there, with the span of slot id; it returns cannot_infer_type exactly   *)
(* when the chain ends in an unresolved slot; it always returns (no abort, *)
(* no default type).                                                       *)
(***************************************************************************)
C7_ReconstructFollowsChain ==
    Alive =>
        \A id \in DOMAIN vars :
            LET r == Reconstruct(vars, id)
                end == vars[ChainEnd(vars, id)]
            IN  /\ ChainEnds(vars, id)
                /\ r.tag \in {"Ok", "Err"}
                /\ r.tag = "Err" <=> end[1] = Unknown
                /\ r.tag = "Err" => r = Err(String("cannot_infer_type"))
                /\ r.tag = "Ok" => end[1] = Num /\ r = Ok(Spanned(TypeNum, vars[id][2]))

(***************************************************************************)
(* What is left of the walk: three for every node typecheck_statement or   *)
(* typecheck_expr has not been called on yet, one for every pending call,  *)
(* one more for a Binary whose rhs is still to be checked, and the entry   *)
(* and the return of typecheck.                                            *)
(***************************************************************************)
PendingLhs(st) == Cardinality({ i \in DOMAIN st : st[i].fn = "BinaryLhs" })

Variant ==
    3 * (Len(Preorder) - Len(calls)) + Len(stack) + PendingLhs(stack)
    + (IF ctl.op = "start" THEN 2 ELSE 0) + (IF ctl.op = "done" THEN 0 ELSE 1)

(***************************************************************************)
(* C8.  typecheck terminates on every syntax tree and returns a typed tree *)
(* or a diagnostic.  Every step of the walk decreases Variant, a natural   *)
(* number bounded by the size of the tree, and the walk can take a step    *)
(* until typecheck has returned.  The nodes typecheck_statement and        *)
(* typecheck_expr are called on are a prefix of the tree in depth-first    *)
(* order, so each node is visited at most once, and all of them when the   *)
(* check succeeds.  Every forward-reference chain in the engine has an     *)
(* end, and no unify or reconstruct call fails to return.                  *)
(***************************************************************************)
C8_TypecheckTerminates ==
    /\ [][Variant' < Variant /\ Variant' >= 0]_state
    /\ [](/\ Done \/ ENABLED Next
          /\ Done <=> result.tag # "Pending"
          /\ result.tag \in {"Pending", "Ok", "Err"}
          /\ IsPrefix(calls, Preorder)
          /\ result.tag = "Ok" => calls = Preorder
          /\ \A id \in DOMAIN vars : ChainEnds(vars, id))

\* typecheck has returned a typed tree for a program of MaxNodes nodes in
\* which a let was unified and its name referenced.
C8_Witness ==
    /\ Done
    /\ result.tag = "Ok"
    /\ Len(calls) = MaxNodes
    /\ \E id \in DOMAIN vars : vars[id][1].tag = "Ref"
    /\ \E e \in ResultExprs : e[1].expr.tag = "Var"

(***************************************************************************)
(* C9.  A check returns the first failure met in depth-first,              *)
(* left-to-right order and stops there.  Once typecheck has an Err: it has *)
(* returned and no step of the walk is enabled (no later statement or      *)
(* operand is checked, nothing more is allocated, bound or pushed); the    *)
(* nodes visited are the tree in depth-first order up to the failing node, *)
(* which is the first variable reference with no visible binding; and the  *)
(* diagnostic is that one failure.  The failing step itself allocates no   *)
(* slot, binds no name and pushes no scope.                                *)
(***************************************************************************)
C9_FirstFailureStopsTheCheck ==
    /\ [](result.tag = "Err"
          => /\ Done
             /\ ~ENABLED Next
             /\ stack = << >>
             /\ IsPrefix(calls, Preorder)
             /\ Unbound # << >>
             /\ Last(calls) = Head(Unbound)
             /\ result = Err(String("undefined_variable")))
    /\ [][ /\ result'.tag = "Err"
              => /\ result.tag = "Pending"
                 /\ id_counter' = id_counter
                 /\ vars' = vars
                 /\ bindings' = bindings
           /\ result.tag = "Err" => result' = result ]_state

\* A check has failed on the left operand of a binary operation, with the
\* right operand and a later statement left unchecked.
C9_Witness ==
    /\ result.tag = "Err"
    /\ ctl.op = "done"
    /\ Len(calls) + 2 <= Len(Preorder)
    /\ \E s \in SeqRange(ast[1].statements[1]) :
          /\ s[1].tag \in {"Expr", "Print"}
          /\ s[1].expr[1].tag = "Binary"
          /\ s[1].expr[1].lhs[2] = Last(calls)

(***************************************************************************)
(* The spans of a tree, node by node: the span of the node, the spans of   *)
(* its payload (name, literal, operator, statement list) and those of its  *)
(* children, in the same shape for a syntax tree and for a typed tree.     *)
(***************************************************************************)
RECURSIVE ExprSpanTree(_)
\* Of an expression of the syntax tree.
ExprSpanTree(e) ==
    IF e[1].tag = "Var" THEN <<e[2], e[1].name[2]>>
    ELSE IF e[1].tag = "Literal" THEN <<e[2], e[1].literal[2]>>
    ELSE IF e[1].tag = "Prefix" THEN <<e[2], e[1].op[2], ExprSpanTree(e[1].expr)>>
    ELSE <<e[2], e[1].op[2], ExprSpanTree(e[1].lhs), ExprSpanTree(e[1].rhs)>>

RECURSIVE TypedExprSpanTree(_)
\* Of an expression of the typed tree.
TypedExprSpanTree(e) ==
    LET kind == e[1].expr
    IN  IF kind.tag = "Var" THEN <<e[2], kind.name[2]>>
        ELSE IF kind.tag = "Literal" THEN <<e[2], kind.literal[2]>>
        ELSE IF kind.tag = "Prefix" THEN <<e[2], kind.op[2], TypedExprSpanTree(kind.expr)>>
        ELSE <<e[2], kind.op[2], TypedExprSpanTree(kind.lhs), TypedExprSpanTree(kind.rhs)>>

RECURSIVE ListSpanTree(_)
\* Of a statement list of the syntax tree.
ListSpanTree(l) ==
    IF l = << >> THEN << >>
    ELSE LET s == Head(l)
         IN  << IF s[1].tag = "Block"
                THEN <<s[2], s[1].statements[2], ListSpanTree(s[1].statements[1])>>
                ELSE IF s[1].tag = "Let"
                THEN <<s[2], s[1].name[2], ExprSpanTree(s[1].value)>>
                ELSE <<s[2], ExprSpanTree(s[1].expr)>> >>
             \o ListSpanTree(Tail(l))

RECURSIVE TypedListSpanTree(_)
\* Of a statement list of the typed tree.
TypedListSpanTree(l) ==
    IF l = << >> THEN << >>
    ELSE LET s == Head(l)
         IN  << IF s[1].tag = "Block"
                THEN <<s[2], s[1].statements[2], TypedListSpanTree(s[1].statements[1])>>
                ELSE IF s[1].tag = "Let"
                THEN <<s[2], s[1].name[2], TypedExprSpanTree(s[1].value)>>
                ELSE <<s[2], TypedExprSpanTree(s[1].expr)>> >>
             \o TypedListSpanTree(Tail(l))

AstSpanTree(a) == <<a[2], a[1].statements[2], ListSpanTree(a[1].statements[1])>>

TypedAstSpanTree(a) == <<a[2], a[1].statements[2], TypedListSpanTree(a[1].statements[1])>>

(***************************************************************************)
(* C10.  For every node of a successfully typed tree (the program, its     *)
(* statement list, each statement, each block's statement list, each let   *)
(* name, each expression, literal and operator) the span on the output     *)
(* node equals the span of the corresponding input node.                   *)
(***************************************************************************)
C10_SpansRoundTrip ==
    result.tag = "Ok" => TypedAstSpanTree(result.v) = AstSpanTree(ast)

(***************************************************************************)
(* C11.  pop_scope called on a scope table that has no frame fails fatally *)
(* (an abort), rather than returning normally and leaving the table empty. *)
(***************************************************************************)
C11_PopScopeOnEmptyAborts ==
    [][ (calls' = Append(calls, [call |-> "pop_scope"]) /\ Len(bindings) = 0)
        => last'.tag = "Panic" ]_state

(***************************************************************************)
(* Diagnostics (src/error.rs).                                             *)
(*                                                                         *)
(* A String is the sequence of its pieces, each a text with the colour it  *)
(* is painted in (x.fg(Color::Yellow)) or "Plain".  The Debug text of a    *)
(* Type or TypeInfo and the Display text of an operator are their names.   *)
(***************************************************************************)
Piece(text) == [text |-> text, fg |-> "Plain"]

Fg(text, color) == [text |-> text, fg |-> color]

Str(text) == <<Piece(text)>>

RECURSIVE Join(_, _)
\* Vec<String>::join(sep)
Join(strings, sep) ==
    IF strings = << >> THEN << >>
    ELSE IF Len(strings) = 1 THEN strings[1]
    ELSE strings[1] \o Str(sep) \o Join(Tail(strings), sep)

\* Error::Typecheck, Error::ExpectedFound, Error::Custom, Error::Many
Typecheck(e) == [tag |-> "Typecheck", e |-> e]

ExpectedFound(span, expected, found) ==
    [tag |-> "ExpectedFound", span |-> span, expected |-> expected, found |-> found]

Custom(span, msg) == [tag |-> "Custom", span |-> span, msg |-> msg]

Many(errors) == [tag |-> "Many", errors |-> errors]

\* The variants of TypecheckError.
UndefinedVariable(name, span) == [tag |-> "UndefinedVariable", name |-> name, span |-> span]

CannotInferType(span) == [tag |-> "CannotInferType", span |-> span]

TypeMismatch(span1, span2, ty1, ty2) ==
    [tag |-> "TypeMismatch", span1 |-> span1, span2 |-> span2, ty1 |-> ty1, ty2 |-> ty2]

CannotApplyUnaryOperator(span, op, ty) ==
    [tag |-> "CannotApplyUnaryOperator", span |-> span, op |-> op, ty |-> ty]

CannotApplyBinaryOperator(span, op, ty1, ty2) ==
    [tag |-> "CannotApplyBinaryOperator", span |-> span, op |-> op, ty1 |-> ty1, ty2 |-> ty2]

\* TypecheckError::make_report: (Message, Spans, Notes)
TypecheckErrorMakeReport(e) ==
    IF e.tag = "UndefinedVariable"
    THEN << Str("Undefined variable '") \o <<Fg(e.name, "Yellow")>> \o Str("'"),
            << <<<<Str("not found in this scope"), "Yellow">>, e.span>> >>,
            << >> >>
    ELSE IF e.tag = "CannotInferType"
    THEN << Str("Cannot infer type"),
            << <<<<Str("Cannot infer the type of this expression"), "Yellow">>, e.span>> >>,
            << Str("help: try adding a type annotation") >> >>
    ELSE IF e.tag = "TypeMismatch"
    THEN << Str("Type mismatch"),
            << <<<<Str("Type '") \o Str(e.ty1) \o Str("' here"), "Yellow">>, e.span1>>,
               <<<<Str("Type '") \o Str(e.ty2) \o Str("' here"), "Yellow">>, e.span2>> >>,
            << >> >>
    ELSE IF e.tag = "CannotApplyUnaryOperator"
    THEN << Str("Cannot apply operator '") \o <<Fg(e.op, "Yellow")>> \o Str("' to type '")
                \o <<Fg(e.ty, "Yellow")>> \o Str("'"),
            << <<<<Str("Cannot apply this operator to type '") \o <<Fg(e.ty, "Yellow")>>
                       \o Str("'"), "Yellow">>, e.span>> >>,
            << >> >>
    ELSE << Str("Cannot apply binary operator '") \o <<Fg(e.op, "Yellow")>>
                \o Str("' to types '") \o <<Fg(e.ty1, "Yellow")>> \o Str("' and '")
                \o <<Fg(e.ty2, "Yellow")>> \o Str("'"),
            << <<<<Str("Cannot apply this operator to types '") \o <<Fg(e.ty1, "Yellow")>>
                       \o Str("' and '") \o <<Fg(e.ty2, "Yellow")>> \o Str("'"),
                   "Yellow">>, e.span>> >>,
            << >> >>

RECURSIVE FlattenReversed(_)
\* A flatten that puts the items of the later Vecs first.
FlattenReversed(vecs) ==
    IF vecs = << >> THEN << >> ELSE FlattenReversed(Tail(vecs)) \o Head(vecs)

RECURSIVE Flatten(_)
\* Iterator::flatten over a sequence of Vecs.
Flatten(vecs) == IF vecs = << >> THEN << >> ELSE Head(vecs) \o Flatten(Tail(vecs))

RECURSIVE MakeReport(_)
\* Error::make_report: Vec<(Message, Spans, Notes)>
MakeReport(e) ==
    IF e.tag = "Typecheck" THEN << TypecheckErrorMakeReport(e.e) >>
    ELSE IF e.tag = "ExpectedFound"
    THEN << << Str(IF e.found.tag = "Some" THEN "Unexpected token in input"
                   ELSE "Unexpected end of input")
                   \o Str(", expected ")
                   \o (IF e.expected = << >> THEN Str("something else")
                       ELSE Join([i \in DOMAIN e.expected |-> <<Fg(e.expected[i], "Yellow")>>],
                                 ", ")),
               << <<<<Str("Unexpected token ")
                          \o <<Fg("'", "Yellow"),
                               Fg(IF e.found.tag = "Some" THEN e.found.v ELSE "eof", "Yellow"),
                               Fg("'", "Yellow")>>,
                      "Yellow">>, e.span>> >>,
               << >> >> >>
    ELSE IF e.tag = "Custom"
    THEN << << Str(e.msg), << <<<<<< >>, "Yellow">>, e.span>> >>, << >> >> >>
    ELSE Flatten([i \in DOMAIN e.errors |-> MakeReport(e.errors[i])])

\* The arms of Error::code for Error::Typecheck.
TypecheckErrorCode(e) ==
    IF e.tag = "UndefinedVariable" THEN 2
    ELSE IF e.tag = "CannotInferType" THEN 3
    ELSE IF e.tag = "TypeMismatch" THEN 4
    ELSE IF e.tag = "CannotApplyUnaryOperator" THEN 5
    ELSE 6

\* An iterator adaptor that yields the first item.
IterFirst(xs) == IF xs = << >> THEN None ELSE Some(Head(xs))

RECURSIVE IterMax(_)
\* Iterator::max: None for an empty iterator.
IterMax(xs) ==
    IF xs = << >> THEN None
    ELSE LET rest == IterMax(Tail(xs))
         IN  IF rest.tag = "Some" /\ rest.v >= Head(xs) THEN rest ELSE Some(Head(xs))

\* Option::unwrap_or
UnwrapOr(opt, default) == IF opt.tag = "Some" THEN opt.v ELSE default

RECURSIVE Code(_)
\* Error::code
Code(e) ==
    IF e.tag = "Typecheck" THEN TypecheckErrorCode(e.e)
    ELSE IF e.tag = "ExpectedFound" THEN 1
    ELSE IF e.tag = "Custom" THEN 0
    ELSE UnwrapOr(IterMax([i \in DOMAIN e.errors |-> Code(e.errors[i])]), 0)

(***************************************************************************)
(* make_report and code on their own: any Error of at most MaxErrorNodes   *)
(* nodes (leaf diagnostics and aggregates), one leaf of every kind.        *)
(***************************************************************************)
LeafErrors ==
    { Typecheck(UndefinedVariable("x", 1)),
      Typecheck(CannotInferType(2)),
      Typecheck(TypeMismatch(1, 2, "Num", "Unknown")),
      Typecheck(CannotApplyUnaryOperator(1, "Negate", "Num")),
      Typecheck(CannotApplyBinaryOperator(2, "Add", "Num", "Num")),
      ExpectedFound(1, <<"a", "b">>, Some("c")),
      ExpectedFound(2, << >>, None),
      Custom(1, "msg") }

RECURSIVE ErrorsOf(_), ErrorSeqsOf(_)
\* The Errors of exactly n nodes.
ErrorsOf(n) ==
    (IF n = 1 THEN LeafErrors ELSE {}) \cup { Many(errors) : errors \in ErrorSeqsOf(n - 1) }

\* The sequences of Errors of n nodes in all.
ErrorSeqsOf(n) ==
    IF n = 0 THEN { << >> }
    ELSE UNION { { <<e>> \o rest : e \in ErrorsOf(k), rest \in ErrorSeqsOf(n - k) } :
                 k \in 1 .. n }

ErrorInit ==
    /\ ast = NthProgram(0)
    /\ id_counter = EngineNew.id_counter
    /\ vars = EngineNew.vars
    /\ bindings = ScopesNew
    /\ stack = << >>
    /\ ctl = [op |-> "driver"]
    /\ result = Pending
    /\ calls = << >>
    /\ last = None
    /\ \E n \in 1 .. MaxErrorNodes : error \in ErrorsOf(n)

CallMakeReport ==
    /\ last' = [tag |-> "Report", v |-> MakeReport(error)]
    /\ UNCHANGED <<error, ast, id_counter, vars, bindings, stack, ctl, result, calls>>

CallCode ==
    /\ last' = [tag |-> "Code", v |-> Code(error)]
    /\ UNCHANGED <<error, ast, id_counter, vars, bindings, stack, ctl, result, calls>>

ErrorNext ==
    \/ CallMakeReport
    \/ CallCode

ErrorSpec == ErrorInit /\ [][ErrorNext]_state

RECURSIVE LeavesOf(_), LeavesOfSeq(_)
\* The leaf diagnostics of an Error, depth-first, left to right.
LeavesOf(e) == IF e.tag = "Many" THEN LeavesOfSeq(e.errors) ELSE <<e>>

LeavesOfSeq(es) ==
    IF es = << >> THEN << >> ELSE LeavesOf(Head(es)) \o LeavesOfSeq(Tail(es))

RECURSIVE ReportsInOrder(_)
\* The reports of the Errors es, one after the other in list order.
ReportsInOrder(es) ==
    IF es = << >> THEN << >> ELSE MakeReport(Head(es)) \o ReportsInOrder(Tail(es))

(***************************************************************************)
(* C12.  make_report yields one report tuple per leaf diagnostic, the      *)
(* leaves being taken depth-first, left to right through nested            *)
(* aggregates; the report of an aggregate is the concatenation of the      *)
(* reports of its children in list order, and that of an empty aggregate   *)
(* is empty.                                                               *)
(***************************************************************************)
C12_ReportIsConcatenationOfChildren ==
    last.tag = "Report" =>
        LET leaves == LeavesOf(error)
        IN  /\ Len(last.v) = Len(leaves)
            /\ \A i \in DOMAIN leaves : MakeReport(leaves[i]) = <<last.v[i]>>
            /\ error.tag = "Many" => last.v = ReportsInOrder(error.errors)
            /\ error = Many(<< >>) => last.v = << >>

\* make_report has been called on an aggregate whose first member is a
\* non-empty aggregate and whose second member is a leaf with another report.
C12_Witness ==
    /\ last.tag = "Report"
    /\ error.tag = "Many"
    /\ Len(error.errors) = 2
    /\ error.errors[1].tag = "Many"
    /\ error.errors[1].errors # << >>
    /\ error.errors[2].tag # "Many"
    /\ Len(last.v) = 2
    /\ last.v[1] # last.v[2]

(***************************************************************************)
(* C13.  The code of an aggregate is the maximum of the codes of its       *)
(* members, through nested aggregates: it is the largest code of a leaf of *)
(* the aggregate when it has a leaf.  The code of an empty aggregate is 0, *)
(* and no diagnostic has a lower code.                                     *)
(***************************************************************************)
C13_CodeOfAggregateIsMax ==
    last.tag = "Code" =>
        LET leaves == LeavesOf(error)
        IN  /\ last.v >= 0
            /\ error = Many(<< >>) => last.v = 0
            /\ (error.tag = "Many" /\ error.errors # << >>)
               => /\ \E i \in DOMAIN error.errors : Code(error.errors[i]) = last.v
                  /\ \A i \in DOMAIN error.errors : Code(error.errors[i]) <= last.v
            /\ leaves # << >>
               => /\ \E i \in DOMAIN leaves : Code(leaves[i]) = last.v
                  /\ \A i \in DOMAIN leaves : Code(leaves[i]) <= last.v
            /\ leaves = << >> => last.v = 0

\* code has been called on an aggregate whose largest code is that of a
\* leaf of a nested aggregate, larger than the code of its first member.
C13_Witness ==
    /\ last.tag = "Code"
    /\ error.tag = "Many"
    /\ Len(error.errors) = 2
    /\ error.errors[1].tag # "Many"
    /\ error.errors[2].tag = "Many"
    /\ error.errors[2].errors # << >>
    /\ Code(error.errors[1]) > 0
    /\ last.v = Code(error.errors[2].errors[1])
    /\ last.v > Code(error.errors[1])

(***************************************************************************)
(* C14.  After a successful unify(a, b) on two allocated slots, in any     *)
(* engine state reached by insert and unify calls, reconstruct(a) and      *)
(* reconstruct(b) return, and return the same outcome: the same concrete   *)
(* type or both cannot_infer_type.  The only slot unify changes is the end *)
(* of the chain of a or of b, never a slot that holds a reference.         *)
(***************************************************************************)
C14_UnifiedSlotsReconstructAlike ==
    [][ \A a \in DOMAIN vars, b \in DOMAIN vars :
            (/\ Alive
             /\ id_counter' = id_counter
             /\ Unify(vars, a, b).res = Ok(<< >>)
             /\ vars' = Unify(vars, a, b).vars
             /\ last' = Unify(vars, a, b).res)
            => LET ra == Reconstruct(vars', a)
                   rb == Reconstruct(vars', b)
                   \* the concrete type of an Ok, the failure otherwise
                   Outcome(r) == IF r.tag = "Ok" THEN [tag |-> "Ok", v |-> r.v[1]] ELSE r
               IN  /\ ra.tag \in {"Ok", "Err"}
                   /\ rb.tag \in {"Ok", "Err"}
                   /\ Outcome(ra) = Outcome(rb)
                   /\ \A id \in DOMAIN vars :
                         vars'[id] # vars[id]
                         => /\ id \in {ChainEnd(vars, a), ChainEnd(vars, b)}
                            /\ vars[id][1].tag # "Ref" ]_state

\* The step is a call unify(a, b), whatever it returned.
UnifyCalled(a, b) ==
    LET u == Unify(vars, a, b)
    IN  /\ Alive
        /\ vars' = u.vars
        /\ last' = u.res

(***************************************************************************)
(* C15.  unify(a, b), with a2 and b2 the ends of the chains of a and b:    *)
(* if a2 is Unknown (b2 Unknown or not) a2 becomes Ref(b2); otherwise if   *)
(* b2 is Unknown, b2 becomes Ref(a2); if both are Num nothing changes.     *)
(* At most one slot changes, it was Unknown, no slot is allocated, and no  *)
(* Num slot and no Ref slot is overwritten.                                *)
(***************************************************************************)
C15_UnifyFrame ==
    [][ \A a \in DOMAIN vars, b \in DOMAIN vars :
            (UnifyCalled(a, b) /\ ChainEnds(vars, a) /\ ChainEnds(vars, b))
            => LET a2 == ChainEnd(vars, a)
                   b2 == ChainEnd(vars, b)
                   \* the slots whose contents the step changes
                   ChangedSlots ==
                       { id \in DOMAIN vars \cap DOMAIN vars' : vars'[id] # vars[id] }
               IN  /\ vars[a2][1] = Unknown
                      => /\ vars'[a2][1] = Ref(b2)
                         /\ ChangedSlots = {a2}
                   /\ (vars[a2][1] # Unknown /\ vars[b2][1] = Unknown)
                      => /\ vars'[b2][1] = Ref(a2)
                         /\ ChangedSlots = {b2}
                   /\ (vars[a2][1] = Num /\ vars[b2][1] = Num)
                      => vars' = vars
                   /\ Cardinality(ChangedSlots) <= 1
                   /\ \A id \in ChangedSlots : vars[id][1] = Unknown
                   /\ DOMAIN vars' = DOMAIN vars
                   /\ id_counter' = id_counter
                   /\ \A id \in DOMAIN vars :
                         vars[id][1].tag \in {"Num", "Ref"} => vars'[id] = vars[id] ]_state

\* unify has been called on a slot that was already a reference and has
\* written the end of its chain: slot 1 refers to slot 2, which refers to
\* the Num slot 3.
C15_Witness ==
    /\ last.tag = "Ok"
    /\ last.v = << >>
    /\ DOMAIN vars = 1 .. 3
    /\ vars[1][1] = Ref(2)
    /\ vars[2][1] = Ref(3)
    /\ vars[3][1] = Num

RECURSIVE ExprVars(_)
\* The variable references of an expression: span and name.
ExprVars(e) ==
    IF e[1].tag = "Var" THEN {<<e[2], e[1].name[1]>>}
    ELSE IF e[1].tag = "Prefix" THEN ExprVars(e[1].expr)
    ELSE IF e[1].tag = "Binary" THEN ExprVars(e[1].lhs) \cup ExprVars(e[1].rhs)
    ELSE {}

RECURSIVE ExprBinaries(_)
\* The binary operations of an expression: the variable references of each
\* operand and the span of the right operand.
ExprBinaries(e) ==
    IF e[1].tag = "Prefix" THEN ExprBinaries(e[1].expr)
    ELSE IF e[1].tag = "Binary"
         THEN {[lhs |-> ExprVars(e[1].lhs), rhs |-> ExprVars(e[1].rhs),
                rhs_span |-> e[1].rhs[2]]}
              \cup ExprBinaries(e[1].lhs) \cup ExprBinaries(e[1].rhs)
    ELSE {}

RECURSIVE ListBinaries(_)
ListBinaries(l) ==
    IF l = << >> THEN {}
    ELSE LET s == Head(l)
         IN  (IF s[1].tag = "Block" THEN ListBinaries(s[1].statements[1])
              ELSE IF s[1].tag = "Let" THEN ExprBinaries(s[1].value)
              ELSE ExprBinaries(s[1].expr))
             \cup ListBinaries(Tail(l))

\* The diagnostics an Err of typecheck_expr carries: the error type is
\* String, one message.
Diagnostics(r) == <<r.e>>

(***************************************************************************)
(* C16.  When the check of the left operand of a binary operation fails    *)
(* and the right operand fails as well (it refers to the same undefined    *)
(* name, in the same scope), the right operand has been checked and the    *)
(* check yields two diagnostics, one for each operand.                     *)
(***************************************************************************)
C16_BothOperandsDiagnosed ==
    result.tag = "Err" =>
        \A b \in ListBinaries(ast[1].statements[1]) :
            \A v \in b.lhs :
                (v[1] = Last(calls) /\ \E w \in b.rhs : w[2] = v[2])
                => /\ \E i \in DOMAIN calls : calls[i] = b.rhs_span
                   /\ Len(Diagnostics(result)) = 2

(***************************************************************************)
(* C17.  Every Engine::insert returns an id greater than every id the      *)
(* engine returned before; no id is reused and no slot is removed.  In     *)
(* every engine state the allocated ids are exactly 1 .. id_counter and    *)
(* every Ref points to an allocated id.                                    *)
(***************************************************************************)
C17_IdsAreFreshAndDense ==
    /\ [](/\ DOMAIN vars = 1 .. id_counter
          /\ \A id \in DOMAIN vars :
                vars[id][1].tag = "Ref" => vars[id][1].id \in DOMAIN vars)
    /\ [][ /\ last'.tag = "Some"
              => /\ last'.v \notin DOMAIN vars
                 /\ \A id \in DOMAIN vars : last'.v > id
                 /\ last'.v = id_counter'
                 /\ DOMAIN vars' = DOMAIN vars \cup {last'.v}
                 /\ \A id \in DOMAIN vars : vars'[id] = vars[id]
           /\ id_counter' >= id_counter
           /\ DOMAIN vars \subseteq DOMAIN vars' ]_state

\* The third insert has returned 3, after a unify made slot 1 a reference.
C17_Witness ==
    /\ last.tag = "Some"
    /\ last.v = 3
    /\ id_counter = 3
    /\ vars[1][1].tag = "Ref"

(***************************************************************************)
(* C18.  In every engine state reached by insert and unify calls on        *)
(* allocated ids, no slot refers to itself and the forward-reference graph *)
(* has no cycle: every chain has an end, and no unify or reconstruct call  *)
(* recurses without bound.                                                 *)
(***************************************************************************)
C18_NoReferenceCycle ==
    /\ last.tag # "StackOverflow"
    /\ \A id \in DOMAIN vars :
          /\ vars[id][1] # Ref(id)
          /\ ChainEnds(vars, id)
          /\ Reconstruct(vars, id).tag # "StackOverflow"
          /\ \A other \in DOMAIN vars : Unify(vars, id, other).res.tag # "StackOverflow"

RECURSIVE ListBlockDepth(_, _, _)
\* The number of Block statements that enclose the node with span `target`
\* of the statement list l, itself enclosed by `depth` blocks: Some(number),
\* or None if the node is not in l.
ListBlockDepth(l, depth, target) ==
    IF l = << >> THEN None
    ELSE LET s == Head(l)
         IN  IF target \in SeqRange(StatementPreorder(s))
             THEN IF s[1].tag = "Block" /\ target # s[2]
                  THEN ListBlockDepth(s[1].statements[1], depth + 1, target)
                  ELSE Some(depth)
             ELSE ListBlockDepth(Tail(l), depth, target)

\* The blocks typecheck_statement is inside of.
OpenBlocks == Cardinality({ i \in DOMAIN stack : stack[i].fn = "Block" })

Running == ctl.op \notin {"start", "done"}

(***************************************************************************)
(* C19.  While a check runs the scope table holds 2 frames plus one for    *)
(* every open block; when typecheck_statement or typecheck_expr is called  *)
(* on a node the table holds 2 frames plus one for every block statement   *)
(* that encloses the node.  The table is never empty, so insert has an     *)
(* innermost frame and pop_scope is never called without one.  A step only *)
(* pushes an empty frame, pops the innermost frame or writes to the        *)
(* innermost frame; the end of a block pops exactly the frame the block    *)
(* pushed, so the frames below are as they were on entry, and a program    *)
(* checked with success leaves the table as Scopes::new made it.           *)
(***************************************************************************)
C19_FramesMatchOpenBlocks ==
    /\ [](/\ Len(bindings) >= 1
          /\ ~ScopesInsertPanics(bindings)
          /\ Running => Len(bindings) = 2 + OpenBlocks
          /\ ctl.op = "start" => bindings = ScopesNew
          /\ result.tag = "Ok" => bindings = ScopesNew)
    /\ [][ /\ calls' # calls
              => /\ calls' = Append(calls, Last(calls'))
                 /\ Len(bindings)
                    = 2 + ListBlockDepth(ast[1].statements[1], 0, Last(calls')).v
           /\ (ctl.op = "stmts" /\ Top.todo = << >>)
              => /\ Len(bindings) >= 2
                 /\ bindings' = SubSeq(bindings, 1, Len(bindings) - 1)
           /\ \/ bindings' = Append(bindings, EmptyMap)
              \/ bindings' = SubSeq(bindings, 1, Len(bindings) - 1)
              \/ /\ Len(bindings') = Len(bindings)
                 /\ \A i \in 1 .. (Len(bindings) - 1) : bindings'[i] = bindings[i] ]_state

\* A let has been bound in the frame of a block nested in a block: four
\* frames, the innermost holding the binding.
C19_Witness ==
    /\ Running
    /\ OpenBlocks = 2
    /\ Len(bindings) = 4
    /\ bindings[4] # EmptyMap
    /\ bindings[3] = EmptyMap

\* The slots the scope table binds a name to, in any frame.
BoundSlots ==
    UNION { { bindings[i][name] : name \in DOMAIN bindings[i] } : i \in DOMAIN bindings }

(***************************************************************************)
(* C20.  In every state the checker reaches, every slot a name is bound to *)
(* is a Ref to the slot of the let's value, which is Num: its chain ends   *)
(* in a concrete type and reconstruct succeeds on it.  typecheck never     *)
(* returns cannot_infer_type, never aborts and never recurses without      *)
(* bound: the only failure it returns is undefined_variable.               *)
(***************************************************************************)
C20_BoundSlotsAreResolved ==
    /\ \A id \in BoundSlots :
          /\ id \in DOMAIN vars
          /\ vars[id][1].tag = "Ref"
          /\ vars[id][1].id \in DOMAIN vars
          /\ vars[vars[id][1].id][1] = Num
          /\ ChainEnds(vars, id)
          /\ vars[ChainEnd(vars, id)][1] = Num
          /\ Reconstruct(vars, id).tag = "Ok"
          /\ Reconstruct(vars, id).v[1] = TypeNum
    /\ result.tag \in {"Pending", "Ok", "Err"}
    /\ result.tag = "Err" => result = Err(String("undefined_variable"))

\* A reference to a let-bound name has been checked: reconstruct ran on the
\* slot the name is bound to and gave the numeric type.
C20_Witness ==
    /\ ctl.op = "ret"
    /\ ctl.v[1].expr.tag = "Var"
    /\ ctl.v[1].ty = TypeNum
    /\ ScopesGet(bindings, ctl.v[1].expr.name[1]).tag = "Some"
    /\ ScopesGet(bindings, ctl.v[1].expr.name[1]).v \in BoundSlots
    /\ vars[ScopesGet(bindings, ctl.v[1].expr.name[1]).v][1].tag = "Ref"

=============================================================================
